---- MODULE Spec2Model ----
(***************************************************************************)
(* Model of the numeris invoice backend: the user collection with its      *)
(* embedded invoice lists, the standalone invoice collections, the invoice *)
(* repository (db/repository/invoice.go), the user repository and the      *)
(* domain invoice object (domain/invoice.go).                              *)
(*                                                                         *)
(* An instant is a calendar day and whether it lies after that day's       *)
(* midnight UTC: every comparison of instants in the program has a         *)
(* midnight on one side, the value time.Parse of a "2006-01-02" string or  *)
(* Truncate(24 * time.Hour) yields.  The clock itself is read after        *)
(* midnight: time.Now() has nanosecond resolution and is not taken to hit  *)
(* 00:00:00.000000000 exactly.  Money is kept in hundredths: the field     *)
(* total_amount_due holds 100 times the amount, so that the discount       *)
(* factor (1 - discount/100) stays an integer computation.                 *)
(***************************************************************************)
EXTENDS Integers, Sequences, FiniteSets, TLC

\* ---------------------------------------------------------------- bounds
MaxUsers == 1
MaxInvoices == 2
MaxDay == 1
MaxItems == 2
MaxAccounts == 3
MaxActivities == 2

VARIABLES userCol, invCol, now, nextUser, nextInv, last, issuedByOp, inv, lastDom, watch,
          reply, pend, overlapped, activityCol, routines, alive

vars == <<userCol, invCol, now, nextUser, nextInv, last, issuedByOp, inv, lastDom, watch,
          reply, pend, overlapped, activityCol, routines, alive>>

\* ------------------------------------------------------------ value sets
Emails == {"a@b.com"}
\* user identifiers a request may name, whether or not such a user is stored
UserIDs == 1..MaxUsers
InvoiceIDs == 1..MaxInvoices
Days == 0..MaxDay
\* due dates of the invoices handed to the repository: the last day in range
DueDays == {MaxDay}

\* the source states of the issue transition (invoice.go:402, 421)
ReadyToIssueStatus == {"pending", "draft", "overdue"}
\* statuses a caller hands to NewInvoice (it does not validate the string)
InputStatuses == {"draft", "paid"}
\* the status the replacement invoice of an update is built with
UpdateStatuses == {"draft"}

\* the two standalone collection names the repository uses
AddCollection == "invoice"
UpdateCollectionPlural == "invoices"
UpdateCollection == "invoice"
IssueCollection == "invoices"
DeleteCollection == "invoices"
CollNames == {"invoice", "invoices"}

NoInv == [invoice_id |-> 0]

Instant(day, late) == [day |-> day, late |-> late]
\* t.Before(u) and t.After(u)
Before(t, u) == t.day < u.day \/ (t.day = u.day /\ ~t.late /\ u.late)
After(t, u) == Before(u, t)
Today == now.day
\* time.Parse("2006-01-02", s): midnight UTC of that day
ParseDate(day) == Instant(day, FALSE)
\* a date string field of a document
DateStr(day) == [typ |-> "string", t |-> day]
\* a BSON datetime written by time.Now()
DateTime(t) == [typ |-> "datetime", t |-> t]

\* ------------------------------------------------------- domain/invoice.go
Item(d, q, p) == [description |-> d, quantity |-> q, unit_price |-> p]

RECURSIVE SumItems(_)
SumItems(items) ==
  IF items = <<>> THEN 0
  ELSE SumItems(SubSeq(items, 1, Len(items) - 1))
       + items[Len(items)].quantity * items[Len(items)].unit_price

calculateTotalAmountNoDiscount(items, discount) == SumItems(items) * 100
calculateTotalAmount(items, discount) == SumItems(items) * (100 - discount)

validateItemAnyQuantity(item) ==
  IF item.description = "" THEN "item description cannot be empty"
  ELSE IF item.unit_price < 0 THEN "item unit price must be greater than or equal to 0"
  ELSE "ok"
validateItem(item) ==
  IF item.description = "" THEN "item description cannot be empty"
  ELSE IF item.quantity <= 0 THEN "item quantity must be greater than 0"
  ELSE IF item.unit_price < 0 THEN "item unit price must be greater than or equal to 0"
  ELSE "ok"

validateDates(issueDay, dueDay) ==
  LET currentDate == Instant(now.day, FALSE)
  IN IF After(currentDate, ParseDate(issueDay)) THEN "issue date cannot be in the past"
     ELSE IF After(ParseDate(issueDay), ParseDate(dueDay)) THEN "issue date cannot be after due date"
     ELSE IF After(currentDate, ParseDate(dueDay)) THEN "due date cannot be in the past"
     ELSE "ok"

NewInvoiceErr(discount, issueDay, dueDay, items) ==
  IF discount < 0 \/ discount > 100 THEN "discount must be between 0 and 100"
  ELSE IF Len(items) = 0 THEN "invoice must have at least one item"
  ELSE IF \E i \in 1..Len(items) : validateItem(items[i]) # "ok"
       THEN validateItem(items[CHOOSE i \in 1..Len(items) :
                                  /\ validateItem(items[i]) # "ok"
                                  /\ \A j \in 1..(i - 1) : validateItem(items[j]) = "ok"])
  ELSE validateDates(issueDay, dueDay)

NewInvoice(id, discount, issueDay, dueDay, items, status) ==
  [invoice_id |-> id,
   issue_date |-> DateStr(issueDay),
   due_date |-> dueDay,
   discount |-> discount,
   total_amount_due |-> calculateTotalAmount(items, discount),
   items |-> items,
   status |-> status]


\* ------------------------------------------------ collections and queries
\* index of the first document of col that satisfies F, 0 when none does
FirstMatch(col, F(_)) ==
  IF \E k \in 1..Len(col) : F(col[k])
  THEN CHOOSE k \in 1..Len(col) : F(col[k]) /\ \A j \in 1..(k - 1) : ~F(col[j])
  ELSE 0

RemoveAt(col, k) == SubSeq(col, 1, k - 1) \o SubSeq(col, k + 1, Len(col))

HasInvoiceID(doc, invoiceID) ==
  \E i \in 1..Len(doc.invoices) : doc.invoices[i].invoice_id = invoiceID

HasReadyStatus(doc) ==
  \E i \in 1..Len(doc.invoices) : doc.invoices[i].status \in ReadyToIssueStatus

\* the array position the positional operator takes from "invoices.invoice_id"
IDPos(doc, invoiceID) ==
  FirstMatch(doc.invoices, LAMBDA e : e.invoice_id = invoiceID)

\* the array position the positional operator takes from "invoices.status"
StatusPos(doc) ==
  FirstMatch(doc.invoices, LAMBDA e : e.status \in ReadyToIssueStatus)

\* filter {"_id": userID, "invoices.invoice_id": invoiceID} on the user collection
UserInvoiceFilterAnyUser(userID, invoiceID) ==
  FirstMatch(userCol, LAMBDA d : HasInvoiceID(d, invoiceID))
UserInvoiceFilter(userID, invoiceID) ==
  FirstMatch(userCol, LAMBDA d : d._id = userID /\ HasInvoiceID(d, invoiceID))

\* FindUserInvoiceByID: the projected element is decoded into domain.Invoice,
\* whose IssueDate is a Go string; a BSON datetime does not decode into it
FindUserInvoiceByID(userID, invoiceID) ==
  LET k == UserInvoiceFilter(userID, invoiceID)
  IN IF k = 0 THEN [err |-> "not_found", invoice |-> NoInv]
     ELSE LET e == userCol[k].invoices[IDPos(userCol[k], invoiceID)]
          IN IF e.issue_date.typ # "string"
             THEN [err |-> "decode_error", invoice |-> NoInv]
             ELSE [err |-> "ok", invoice |-> e]

\* the embedded copies and the standalone copies of an invoice identifier
EmbeddedIn(users, invoiceID) ==
  UNION {{users[k].invoices[i] : i \in {i \in 1..Len(users[k].invoices) :
                                    users[k].invoices[i].invoice_id = invoiceID}} :
         k \in 1..Len(users)}
Embedded(invoiceID) == EmbeddedIn(userCol, invoiceID)

\* the standalone copies are the documents of the collection AddNewInvoice inserts into
StandaloneIn(colls, invoiceID) ==
  {colls[AddCollection][i] : i \in {i \in 1..Len(colls[AddCollection]) :
                                  colls[AddCollection][i].invoice_id = invoiceID}}
Standalone(invoiceID) == StandaloneIn(invCol, invoiceID)

AllEmbedded == UNION {Embedded(id) : id \in 1..(nextInv - 1)}
AllStandalone == UNION {Standalone(id) : id \in 1..(nextInv - 1)}

\* ------------------------------------------------------- inputs and faults
\* line items and discount of the invoices handed to the repository
CreateContents ==
  {[items |-> <<Item("design", 3, 10), Item("hosting", 1, 50)>>, discount |-> 10]}
UpdateContents ==
  {[items |-> <<Item("design", 1, 10)>>, discount |-> 0]}

\* what a call saw before it acted: the embedded element the filter
\* {"_id", "invoices.invoice_id"} selects, and whether a standalone copy exists
PreEmbedded(userID, invoiceID) ==
  LET k == UserInvoiceFilter(userID, invoiceID)
  IN IF k = 0 THEN NoInv ELSE userCol[k].invoices[IDPos(userCol[k], invoiceID)]

\* the repository operations, and the record kept while no call is on record
Ops == {"adduser", "add", "update", "issue", "delete"}
NoCall == [op |-> "none", user |-> 0, id |-> 0, arg |-> NoInv, fault |-> "none",
           res |-> "none", pre |-> NoInv, preSt |-> FALSE]

\* the record of the last repository call: its arguments, the injected write
\* fault, its result and what it saw before it acted.  Only the operations in
\* watch are put on record; a call of another operation clears the record.
Called(op, userID, invoiceID, arg, fault, res) ==
  IF op \in watch
  THEN [op |-> op, user |-> userID, id |-> invoiceID, arg |-> arg, fault |-> fault,
        res |-> res, pre |-> PreEmbedded(userID, invoiceID),
        preSt |-> Standalone(invoiceID) # {}]
  ELSE NoCall

\* ---------------------------------------------------------- domain/user.go
\* the addresses of the requests that match emailRegex
WellFormedEmails == {"a@b.com", "A@B.com", "c@d.org", "e@f.net"}
validateEmail(email) == email \in WellFormedEmails

ToLower(s) == IF s = "A@B.com" THEN "a@b.com" ELSE s
TrimSpace(s) == IF s = " " THEN "" ELSE s

\* gonull.NewNullable marks the phone number as present, so it is checked
validateFields(firstName, lastName, email, phoneNumber) ==
  IF TrimSpace(firstName) = "" THEN "first name cannot be empty"
  ELSE IF TrimSpace(lastName) = "" THEN "last name cannot be empty"
  ELSE IF TrimSpace(email) = "" THEN "email cannot be empty"
  ELSE IF TrimSpace(phoneNumber) = "" THEN "phone number cannot be empty"
  ELSE "ok"

\* no token: the field is omitted from the document when empty
NoToken == [sub |-> 0, email |-> "", iat |-> 0]

\* &User{}: every field empty; the identifier 0 stands for the empty string
EmptyUser ==
  [_id |-> 0, first_name |-> "", last_name |-> "", email |-> "", password |-> "",
   phone_number |-> "", token |-> NoToken, invoices |-> <<>>]

\* NewUser returns the empty user, and no error, for input it finds invalid
NewUser(id, firstName, lastName, email, password, phoneNumber) ==
  IF ~validateEmail(email) THEN EmptyUser
  ELSE IF validateFields(firstName, lastName, email, phoneNumber) # "ok" THEN EmptyUser
  ELSE [_id |-> id, first_name |-> firstName, last_name |-> lastName,
        email |-> ToLower(email), password |-> password,
        phone_number |-> phoneNumber, token |-> NoToken, invoices |-> <<>>]

\* ---------------------------------------------- db/service/passwordhasher.go
\* bcrypt: the hash of a password, recognised later by CompareHashAndPassword
GenerateFromPassword(password) == "bcrypt:" \o password
CompareHashAndPassword(hashedPassword, password) ==
  hashedPassword = GenerateFromPassword(password)

CreateHash(password) ==
  IF password = "" THEN [err |-> "invalid input password from user", hash |-> ""]
  ELSE [err |-> "ok", hash |-> GenerateFromPassword(password)]

VerifyPasswordNonEmpty(hashPassword, password) ==
  ~(password = "" \/ hashPassword = "")
\* the body passes its second parameter as the hash and its first as the
\* password
VerifyPassword(hashPassword, password) ==
  IF password = "" \/ hashPassword = "" THEN FALSE
  ELSE CompareHashAndPassword(password, hashPassword)

\* the signed claims of a token: subject, email, time of issue
GenerateJWTToken(userUUID, email) ==
  IF ~validateEmail(email) THEN [err |-> "invalid email format", token |-> NoToken]
  ELSE [err |-> "ok", token |-> [sub |-> userUUID, email |-> email, iat |-> now.day]]

\* the answer of the last account request or account repository call
NoReply == [op |-> "none", arg |-> [email |-> ""], status |-> 0, err |-> "", res |-> "none",
            user |-> 0, token |-> NoToken]
Reply(op, arg, status, err, res, user, token) ==
  [op |-> op, arg |-> arg, status |-> status, err |-> err, res |-> res,
   user |-> user, token |-> token]
\* the two requests that may be in AddUser at the same time
Procs == {1, 2}

AddFaults == {"none", "push", "insert"}
UpdateFaults == {"none", "second"}

\* empty collections, as the database is before the first request
InitWatching(ops) ==
  /\ userCol = <<>>
  /\ invCol = [c \in CollNames |-> <<>>]
  /\ now = Instant(0, TRUE)
  /\ nextUser = 1
  /\ nextInv = 1
  /\ last = NoCall
  /\ issuedByOp = {}
  /\ inv = NoInv
  /\ lastDom = [op |-> "none", res |-> "none"]
  /\ watch = ops
  /\ reply = NoReply
  /\ pend = [p \in Procs |-> ""]
  /\ overlapped = {}
  /\ activityCol = <<>>
  /\ routines = <<>>
  /\ alive = TRUE

Init == InitWatching(Ops)

\* ------------------------------------------------- db/repository/user.go
UserByEmailNotFound(email) == 0
\* FindOne by email: the position of the first document with the address
UserByEmail(email) == FirstMatch(userCol, LAMBDA d : d.email = email)

\* InsertOne: a document without identifier gets one from the driver
InsertedUser(user) == IF user._id = 0 THEN [user EXCEPT !._id = nextUser] ELSE user

\* the collection after AddUser(user, email), and the user it returns
AddUserCol(user, email) ==
  IF UserByEmail(email) = 0 THEN Append(userCol, InsertedUser(user)) ELSE userCol
AddUserReturn(user, email) ==
  IF UserByEmail(email) = 0 THEN user ELSE userCol[UserByEmail(email)]

\* UpdateOne by _id: the first document with the identifier gets the token;
\* a filter that matches no document is not an error of UpdateOne
UserByID(id) == FirstMatch(userCol, LAMBDA d : d._id = id)
SaveTokenCol(id, accessToken) ==
  IF UserByID(id) = 0 THEN userCol
  ELSE [userCol EXCEPT ![UserByID(id)].token = accessToken]
SaveTokenErr(id, accessToken) == "ok"

SaveToken(id, accessToken) ==
  /\ userCol' = SaveTokenCol(id, accessToken)
  /\ reply' = Reply("savetoken", [id |-> id], 0, SaveTokenErr(id, accessToken),
                    IF UserByID(id) = 0 THEN "unmatched" ELSE "matched", id, accessToken)
  /\ UNCHANGED <<invCol, now, nextUser, nextInv, last, issuedByOp, inv, lastDom, watch,
                 pend, overlapped, activityCol, routines, alive>>

\* FindOneAndUpdate by email: ErrNoDocuments when no document matches
UpdatePassword(email, password) ==
  /\ IF UserByEmail(email) = 0
     THEN /\ UNCHANGED userCol
          /\ reply' = Reply("updatepassword", [email |-> email], 0,
                            "cannot reset user password! this acc does not exist",
                            "unmatched", 0, NoToken)
     ELSE /\ userCol' = [userCol EXCEPT ![UserByEmail(email)].password = password]
          /\ reply' = Reply("updatepassword", [email |-> email], 0, "ok", "matched",
                            userCol[UserByEmail(email)]._id, NoToken)
  /\ UNCHANGED <<invCol, now, nextUser, nextInv, last, issuedByOp, inv, lastDom, watch,
                 pend, overlapped, activityCol, routines, alive>>

\* the account every invoice operation works on: valid fields, one password
AddUserCall(email) ==
  /\ LET user == NewUser(nextUser, "Ada", "Lovelace", email,
                         GenerateFromPassword("secret12"), "555")
     IN /\ userCol' = AddUserCol(user, email)
        /\ IF UserByEmail(email) = 0
           THEN /\ nextUser' = nextUser + 1
                /\ last' = Called("adduser", nextUser, 0, NoInv, "none", "inserted")
           ELSE /\ UNCHANGED nextUser
                /\ last' = Called("adduser", AddUserReturn(user, email)._id,
                                   0, NoInv, "none", "existing")
  /\ UNCHANGED <<invCol, now, nextInv, issuedByOp, inv, lastDom, watch, reply, pend, overlapped, activityCol, routines, alive>>

AddUser(email) ==
  /\ UserByEmail(email) = 0 => nextUser <= MaxUsers
  /\ AddUserCall(email)

\* ---------------------------------------------- db/repository/invoice.go
\* The invoice is built by domain.NewInvoice, as CreateInvoiceHandler does;
\* generateID gives it an identifier no other invoice has.  nextInv counts the
\* identifiers that reached a collection: one that was never stored is not
\* told apart from the next one generated.
AddNewInvoiceCall(userID, c, issueDay, dueDay, status, fault) ==
  /\ nextInv <= MaxInvoices
  /\ NewInvoiceErr(c.discount, issueDay, dueDay, c.items) = "ok"
  /\ LET invoice == NewInvoice(nextInv, c.discount, issueDay, dueDay, c.items, status)
         k == FirstMatch(userCol, LAMBDA d : d._id = userID)
     IN /\ IF fault = "push"
           THEN \* UpdateOne fails: the callback panics, the session ends, nothing commits
                /\ UNCHANGED <<userCol, invCol, nextInv>>
                /\ last' = Called("add", userID, nextInv, NoInv, fault, "panic")
           ELSE IF fault = "insert"
           THEN \* InsertOne fails: WithTransaction aborts both writes
                /\ UNCHANGED <<userCol, invCol, nextInv>>
                /\ last' = Called("add", userID, nextInv, NoInv, fault, "error")
           ELSE /\ nextInv' = nextInv + 1
                /\ userCol' = IF k = 0 THEN userCol
                              ELSE [userCol EXCEPT ![k].invoices = Append(@, invoice)]
                /\ invCol' = [invCol EXCEPT ![AddCollection] = Append(@, invoice)]
                /\ last' = Called("add", userID, nextInv, invoice, fault, "ok")
  /\ UNCHANGED <<now, nextUser, issuedByOp, inv, lastDom, watch, pend, overlapped, activityCol, alive>>

AddNewInvoice(userID, c, issueDay, dueDay, status, fault) ==
  /\ AddNewInvoiceCall(userID, c, issueDay, dueDay, status, fault)
  /\ UNCHANGED <<reply, routines>>

\* The replacement is built by domain.NewInvoice in UpdateUnIssuedInvoiceHandler,
\* so it carries a newly generated identifier.  The two UpdateOne calls are
\* given ctx, not sessCtx: they run outside the session's transaction and
\* each takes effect on its own.
UpdateInvoiceBeforeDueDateCall(userID, invoiceID, c, issueDay, dueDay, status, fault) ==
  /\ NewInvoiceErr(c.discount, issueDay, dueDay, c.items) = "ok"
  /\ LET updatedInvoice == NewInvoice(nextInv, c.discount, issueDay, dueDay, c.items, status)
         found == FindUserInvoiceByID(userID, invoiceID)
         currentInvoice == found.invoice
         k == UserInvoiceFilter(userID, invoiceID)
         j == FirstMatch(invCol[UpdateCollection], LAMBDA d : d.invoice_id = invoiceID)
         R(res) == Called("update", userID, invoiceID, updatedInvoice, fault, res)
         Rejected(res) == Called("update", userID, invoiceID, NoInv, "none", res)
     IN IF found.err # "ok"
        THEN /\ UNCHANGED <<userCol, invCol, nextInv>>
             /\ last' = Rejected(found.err)
        ELSE IF \/ Before(ParseDate(currentInvoice.issue_date.t), now)
                \/ After(now, ParseDate(currentInvoice.due_date))
        THEN /\ UNCHANGED <<userCol, invCol, nextInv>>
             /\ last' = Rejected("immutable")
        ELSE /\ nextInv' = nextInv + 1
             /\ userCol' = [userCol EXCEPT
                              ![k].invoices[IDPos(userCol[k], invoiceID)] = updatedInvoice]
             /\ IF fault = "second"
                THEN /\ UNCHANGED invCol
                     /\ last' = R("error")
                ELSE IF j = 0
                THEN /\ UNCHANGED invCol
                     /\ last' = R("no_match_invoice")
                ELSE /\ invCol' = [invCol EXCEPT ![UpdateCollection][j] = updatedInvoice]
                     /\ last' = R("ok")
  /\ UNCHANGED <<now, nextUser, issuedByOp, inv, lastDom, watch, pend, overlapped, activityCol, alive>>

UpdateInvoiceBeforeDueDate(userID, invoiceID, c, issueDay, dueDay, status, fault) ==
  /\ nextInv <= MaxInvoices
  /\ UpdateInvoiceBeforeDueDateCall(userID, invoiceID, c, issueDay, dueDay, status, fault)
  /\ UNCHANGED <<reply, routines>>

\* "$set": {"invoices.$.status": "issued", "invoices.$.issue_date": time.Now()}
IssuedStatusOnly(e) == [e EXCEPT !.status = "issued"]
Issued(e) == [e EXCEPT !.status = "issued", !.issue_date = DateTime(now)]

\* The user filter names "invoices.invoice_id" and "invoices.status" as two
\* separate conditions on the array, so the positional operator may take the
\* position either condition matched (byStatus).  The standalone update goes
\* to the collection "invoices" and sets only issued_date.
UpdateInvoiceStatusToIssuedCall(userID, invoiceID, byStatus) ==
  LET k == FirstMatch(userCol, LAMBDA d : /\ d._id = userID
                                          /\ HasInvoiceID(d, invoiceID)
                                          /\ HasReadyStatus(d))
      pos == IF byStatus THEN StatusPos(userCol[k]) ELSE IDPos(userCol[k], invoiceID)
      j == FirstMatch(invCol[IssueCollection],
                      LAMBDA d : d.invoice_id = invoiceID /\ d.status \in ReadyToIssueStatus)
      R(res) == Called("issue", userID, invoiceID, NoInv, "none", res)
  IN /\ IF k = 0
        THEN UNCHANGED <<userCol, issuedByOp>>
        ELSE /\ userCol' = [userCol EXCEPT ![k].invoices[pos] = Issued(@)]
             /\ issuedByOp' = issuedByOp \cup {userCol[k].invoices[pos].invoice_id}
     /\ invCol' = IF j = 0 THEN invCol
                  ELSE [invCol EXCEPT ![IssueCollection][j] =
                          ("issued_date" :> DateTime(now)) @@ @]
     /\ last' = R("ok")
     /\ UNCHANGED <<now, nextUser, nextInv, inv, lastDom, watch, pend, overlapped, activityCol, alive>>

UpdateInvoiceStatusToIssued(userID, invoiceID, byStatus) ==
  /\ UpdateInvoiceStatusToIssuedCall(userID, invoiceID, byStatus)
  /\ UNCHANGED <<reply, routines>>

\* DeleteInvoice's filter on the user collection: {"_id", "invoices.invoice_id"}
DeleteFilterByUserOnly(userID, invoiceID) ==
  FirstMatch(userCol, LAMBDA d : d._id = userID)
DeleteFilter(userID, invoiceID) ==
  FirstMatch(userCol, LAMBDA d : d._id = userID /\ HasInvoiceID(d, invoiceID))

\* DeleteOne on the user collection removes the document the filter matches,
\* that is the user document holding the invoice; the standalone delete goes
\* to the collection "invoices".
DeleteInvoiceCall(userID, invoiceID) ==
  LET k == DeleteFilter(userID, invoiceID)
      j == FirstMatch(invCol[DeleteCollection], LAMBDA d : d.invoice_id = invoiceID)
      R(res) == Called("delete", userID, invoiceID, NoInv, "none", res)
  IN /\ userCol' = IF k = 0 THEN userCol ELSE RemoveAt(userCol, k)
     /\ invCol' = IF j = 0 THEN invCol
                  ELSE [invCol EXCEPT ![DeleteCollection] = RemoveAt(@, j)]
     /\ last' = R("ok")
     /\ UNCHANGED <<now, nextUser, nextInv, issuedByOp, inv, lastDom, watch, pend, overlapped, activityCol, alive>>

DeleteInvoice(userID, invoiceID) ==
  /\ DeleteInvoiceCall(userID, invoiceID)
  /\ UNCHANGED <<reply, routines>>

\* the clock passes into the next day
Tick ==
  /\ now.day < MaxDay
  /\ now' = Instant(now.day + 1, TRUE)
  /\ UNCHANGED <<userCol, invCol, nextUser, nextInv, last, issuedByOp, inv, lastDom, watch, reply, pend, overlapped, activityCol, routines, alive>>

Next ==
  \/ Tick
  \/ \E email \in Emails : AddUser(email)
  \/ \E userID \in UserIDs, c \in CreateContents, issueDay \in Days, dueDay \in DueDays,
        status \in InputStatuses, fault \in AddFaults :
        AddNewInvoice(userID, c, issueDay, dueDay, status, fault)
  \/ \E userID \in UserIDs, invoiceID \in InvoiceIDs, c \in UpdateContents,
        issueDay \in Days, dueDay \in DueDays, status \in UpdateStatuses, fault \in UpdateFaults :
        UpdateInvoiceBeforeDueDate(userID, invoiceID, c, issueDay, dueDay, status, fault)
  \/ \E userID \in UserIDs, invoiceID \in InvoiceIDs, byStatus \in BOOLEAN :
        UpdateInvoiceStatusToIssued(userID, invoiceID, byStatus)
  \/ \E userID \in UserIDs, invoiceID \in InvoiceIDs :
        DeleteInvoice(userID, invoiceID)

Spec == Init /\ [][Next]_vars

\* the same program with only the calls of one operation put on record
SpecUpdate == InitWatching({"update"}) /\ [][Next]_vars
SpecDelete == InitWatching({"delete"}) /\ [][Next]_vars

\* the same program with the due date of a request drawn from every day
NextAnyDue ==
  \/ Tick
  \/ \E email \in Emails : AddUser(email)
  \/ \E userID \in UserIDs, c \in CreateContents, issueDay \in Days, dueDay \in Days,
        status \in InputStatuses, fault \in AddFaults :
        AddNewInvoice(userID, c, issueDay, dueDay, status, fault)
  \/ \E userID \in UserIDs, invoiceID \in InvoiceIDs, c \in UpdateContents,
        issueDay \in Days, dueDay \in Days, status \in UpdateStatuses, fault \in UpdateFaults :
        UpdateInvoiceBeforeDueDate(userID, invoiceID, c, issueDay, dueDay, status, fault)
  \/ \E userID \in UserIDs, invoiceID \in InvoiceIDs, byStatus \in BOOLEAN :
        UpdateInvoiceStatusToIssued(userID, invoiceID, byStatus)
  \/ \E userID \in UserIDs, invoiceID \in InvoiceIDs :
        DeleteInvoice(userID, invoiceID)

SpecAnyDue == Init /\ [][NextAnyDue]_vars

\* the same program with room for one more generated identifier, so that an
\* invoice can be updated once more after every identifier of InvoiceIDs has
\* been given out
NextUpdateAgain ==
  \/ Tick
  \/ \E email \in Emails : AddUser(email)
  \/ \E userID \in UserIDs, c \in CreateContents, issueDay \in Days, dueDay \in DueDays,
        status \in InputStatuses, fault \in AddFaults :
        AddNewInvoice(userID, c, issueDay, dueDay, status, fault)
  \/ \E userID \in UserIDs, invoiceID \in InvoiceIDs, c \in UpdateContents,
        issueDay \in Days, dueDay \in DueDays, status \in UpdateStatuses, fault \in UpdateFaults :
        /\ nextInv <= MaxInvoices + 1
        /\ UpdateInvoiceBeforeDueDateCall(userID, invoiceID, c, issueDay, dueDay, status, fault)
        /\ UNCHANGED <<reply, routines>>
  \/ \E userID \in UserIDs, invoiceID \in InvoiceIDs, byStatus \in BOOLEAN :
        UpdateInvoiceStatusToIssued(userID, invoiceID, byStatus)
  \/ \E userID \in UserIDs, invoiceID \in InvoiceIDs :
        DeleteInvoice(userID, invoiceID)

SpecUpdateAgain == Init /\ [][NextUpdateAgain]_vars

\* the same repository with a second account, so that a call can name the
\* identifier of one owner and an invoice of the other; the clock stands at
\* the first day and every invoice is dated for the last one, so that an
\* update is not refused for its dates
OwnerEmails == {"a@b.com", "c@d.org"}
OwnerIDs == 1..(MaxUsers + 1)
MutationOps == {"update", "issue", "delete"}

NextOwners ==
  \/ \E email \in OwnerEmails :
        /\ UserByEmail(email) = 0 => nextUser <= MaxUsers + 1
        /\ AddUserCall(email)
  \/ \E userID \in OwnerIDs, c \in CreateContents, dueDay \in DueDays :
        AddNewInvoice(userID, c, dueDay, dueDay, "draft", "none")
  \/ \E userID \in OwnerIDs, invoiceID \in InvoiceIDs, c \in UpdateContents,
        dueDay \in DueDays, fault \in UpdateFaults :
        UpdateInvoiceBeforeDueDate(userID, invoiceID, c, dueDay, dueDay, "draft", fault)
  \/ \E userID \in OwnerIDs, invoiceID \in InvoiceIDs, byStatus \in BOOLEAN :
        UpdateInvoiceStatusToIssued(userID, invoiceID, byStatus)
  \/ \E userID \in OwnerIDs, invoiceID \in InvoiceIDs :
        DeleteInvoice(userID, invoiceID)

SpecOwners == InitWatching(MutationOps) /\ [][NextOwners]_vars

\* ------------------------------- invoice endpoints, app/app.go handlers
\* ------------------------------ InvoiceStatSummary, db/repository/invoice.go
\* a field of a document, 0 when the document has no field of that name
\* ("$sum" counts a missing field as 0)
FieldOrZero(doc, field) == IF field \in DOMAIN doc THEN doc[field] ELSE 0

\* "$match" on _id, "$unwind" of invoices, "$match" on invoices.status = "paid"
PaidInvoices(userID) ==
  LET k == FirstMatch(userCol, LAMBDA d : d._id = userID)
  IN IF k = 0 THEN <<>>
     ELSE SelectSeq(userCol[k].invoices, LAMBDA e : e.status = "paid")

RECURSIVE SumField(_, _)
SumField(docs, field) ==
  IF docs = <<>> THEN 0
  ELSE SumField(SubSeq(docs, 1, Len(docs) - 1), field) + FieldOrZero(docs[Len(docs)], field)

\* "$group" with _id nil: one document when a document reaches the stage, none
\* otherwise.  totalPaid sums "$invoices.total_amount"; the two conditional
\* sums read "$invoices.totalAmount" of the documents whose status is overdue
\* (and whose "dueDate" lies before now: a missing field sorts before a date)
\* or draft.
GroupStage(docs) ==
  IF docs = <<>> THEN <<>>
  ELSE <<[totalPaid |-> SumField(docs, "total_amount"),
          totalOverdue |-> SumField(SelectSeq(docs, LAMBDA e : e.status = "overdue"),
                                    "totalAmount"),
          totalDraft |-> SumField(SelectSeq(docs, LAMBDA e : e.status = "draft"),
                                  "totalAmount")]>>

\* domain.InvoiceSummary with every field at its zero value
ZeroSummary == [TotalPaid |-> 0, TotalOverdue |-> 0, TotalPending |-> 0, TotalUnpaid |-> 0]

\* what "var results domain.InvoiceSummary" is; cursor.All(ctx, &results)
\* accepts a pointer to a slice only and returns an error for anything else
\* before it reads a document
ResultsKind == "struct"
CursorAll(kind, docs) ==
  IF kind # "slice"
  THEN "results argument must be a pointer to a slice, but was a pointer to " \o kind
  ELSE "nil"

InvoiceStatSummaryResult(userID) ==
  LET err == CursorAll(ResultsKind, GroupStage(PaidInvoices(userID)))
  IN IF err # "nil"
     THEN [err |-> "error decoding invoice stats: " \o err, summary |-> NoInv]
     ELSE [err |-> "nil", summary |-> ZeroSummary]

InvoiceStatSummary(userID) ==
  /\ last' = Called("stat", userID, 0, InvoiceStatSummaryResult(userID).summary, "none",
                    InvoiceStatSummaryResult(userID).err)
  /\ UNCHANGED <<userCol, invCol, now, nextUser, nextInv, issuedByOp, inv, lastDom, watch,
                 reply, pend, overlapped, activityCol, routines, alive>>

NextStat ==
  \/ \E email \in Emails : AddUser(email)
  \/ \E userID \in UserIDs, c \in CreateContents, issueDay \in Days, dueDay \in DueDays,
        status \in InputStatuses :
        AddNewInvoice(userID, c, issueDay, dueDay, status, "none")
  \/ \E userID \in UserIDs, invoiceID \in InvoiceIDs, byStatus \in BOOLEAN :
        UpdateInvoiceStatusToIssued(userID, invoiceID, byStatus)
  \/ \E userID \in UserIDs : InvoiceStatSummary(userID)

SpecStat == InitWatching({"stat"}) /\ [][NextStat]_vars

\* the Authorization header of a request: absent, not of the form
\* "Bearer <token>", carrying a token ParseToken rejects (bad signature or
\* expired), or carrying a token ParseToken accepts
Headers == {"missing", "malformed", "invalid_token", "valid"}

\* c.Next() called by the last handler of a route that no later route
\* matches: the router's not-found error
NextHandler == "Cannot find route"

\* the error contextWithAuth returns; c.Status(...).JSON(...) returns nil
\* once the response is written
contextWithAuth(header) ==
  IF header = "missing" THEN "nil"
  ELSE IF header = "malformed" THEN "nil"
  ELSE IF header = "invalid_token" THEN "nil"
  ELSE NextHandler

\* an invoice identifier in a request path: the text generateID produced for
\* the stored identifier hex ("INV-" and 24 hex digits), or 24 hex digits alone
PathIDs == [prefix : {"INV-", ""}, hex : InvoiceIDs]
generateID(n) == [prefix |-> "INV-", hex |-> n]
ObjectIDFromHex(id) == id.prefix = ""
\* the stored identifier a path identifier is equal to, 0 when it is equal to none
StoredID(id) == IF id.prefix = "INV-" THEN id.hex ELSE 0

\* ------------------------------------------- user activity, app.go, part_009
\* the action tags of db/activity.go the four invoice handlers use
CreateInvoiceActivity == "create_invoice_activity"
UpdateInvoiceActivity == "update_invoice_activity"
IssueInvoiceActivity == "issue_invoice_activity"
DeleteInvoiceActivity == "delete_invoice_activity"

\* domain.Activity as the goroutine of a handler builds it; its timestamp,
\* read when the goroutine runs, is left out
Activity(userID, action, invoiceID) ==
  [user_id |-> userID, action |-> action, invoiceID |-> invoiceID]

\* the handler goes on to its "go func()" when the repository returned no error
DispatchAlways(err) == TRUE
DispatchOn(err) == err = "ok"

\* go func() { ... }(): one more goroutine that has not run yet
Dispatch(err, userID, action, invoiceID) ==
  IF DispatchOn(err) THEN Append(routines, Activity(userID, action, invoiceID))
  ELSE routines

\* the process serves requests; the number of activity records a behaviour
\* dispatches is capped
HandlerReady == alive /\ Len(routines) + Len(activityCol) < MaxActivities

SaveFaults == {"none", "insert"}

\* A dispatched goroutine runs ActivityRepository.Save.  InsertOne appends the
\* record to the collection "activity"; when InsertOne fails Save panics in
\* its goroutine, where nothing recovers: the Go runtime ends the process.
ActivitySave(i, fault) ==
  /\ alive
  /\ i \in 1..Len(routines)
  /\ routines' = RemoveAt(routines, i)
  /\ IF fault = "none"
     THEN /\ activityCol' = Append(activityCol, routines[i])
          /\ UNCHANGED alive
     ELSE /\ alive' = FALSE
          /\ UNCHANGED activityCol
  /\ UNCHANGED <<userCol, invCol, now, nextUser, nextInv, last, issuedByOp, inv, lastDom,
                 watch, reply, pend, overlapped>>

\* ------------------------------------------------------ handlers, app.go
\* the request body carries every required field, so BodyParser and
\* FieldValidator pass; the user identifier in the path is 24 hex digits.
\* A panic in a handler is recovered nowhere either.
CreateInvoiceHandler(header, userID, c, issueDay, dueDay, fault) ==
  LET arg == [header |-> header, userID |-> userID, invoiceID |-> generateID(0)]
      Unserved(status, err) ==
        /\ reply' = Reply("create", arg, status, err, "none", userID, NoToken)
        /\ UNCHANGED <<userCol, invCol, nextInv, last>>
        /\ UNCHANGED <<now, nextUser, issuedByOp, inv, lastDom, watch, pend, overlapped,
                       activityCol, routines, alive>>
  IN /\ HandlerReady
     /\ IF contextWithAuth(header) # "nil"
        THEN Unserved(401, "unauthorized")
        ELSE IF NewInvoiceErr(c.discount, issueDay, dueDay, c.items) # "ok"
        THEN Unserved(500, "Failed to create invoice")
        ELSE /\ AddNewInvoiceCall(userID, c, issueDay, dueDay, "draft", fault)
             /\ IF fault = "push"
                THEN /\ reply' = Reply("create", arg, 0, "panic", "called", userID, NoToken)
                     /\ alive' = FALSE
                     /\ UNCHANGED routines
                ELSE IF fault = "insert"
                THEN /\ reply' = Reply("create", arg, 500, "Failed to create invoice",
                                       "called", userID, NoToken)
                     /\ routines' = Dispatch("error", userID, CreateInvoiceActivity,
                                             generateID(nextInv))
                     /\ UNCHANGED alive
                ELSE /\ reply' = Reply("create", [arg EXCEPT !.invoiceID = generateID(nextInv)],
                                       201, "", "called", userID, NoToken)
                     /\ routines' = Dispatch("ok", userID, CreateInvoiceActivity,
                                             generateID(nextInv))
                     /\ UNCHANGED alive

\* the result UpdateInvoiceBeforeDueDate returns to its caller
UpdateInvoiceBeforeDueDateRes(userID, invoiceID, fault) ==
  LET found == FindUserInvoiceByID(userID, invoiceID)
      j == FirstMatch(invCol[UpdateCollection], LAMBDA d : d.invoice_id = invoiceID)
  IN IF found.err # "ok" THEN found.err
     ELSE IF \/ Before(ParseDate(found.invoice.issue_date.t), now)
             \/ After(now, ParseDate(found.invoice.due_date))
     THEN "immutable"
     ELSE IF fault = "second" THEN "error"
     ELSE IF j = 0 THEN "no_match_invoice"
     ELSE "ok"

\* the invoice identifier of the path goes to the repository as it is
UpdateUnIssuedInvoiceHandler(header, userID, invoiceID, c, issueDay, dueDay, fault) ==
  LET arg == [header |-> header, userID |-> userID, invoiceID |-> invoiceID]
      err == UpdateInvoiceBeforeDueDateRes(userID, StoredID(invoiceID), fault)
      Unserved(status, msg) ==
        /\ reply' = Reply("update", arg, status, msg, "none", userID, NoToken)
        /\ UNCHANGED <<userCol, invCol, nextInv, last>>
        /\ UNCHANGED <<now, nextUser, issuedByOp, inv, lastDom, watch, pend, overlapped,
                       activityCol, routines, alive>>
  IN /\ HandlerReady
     /\ IF contextWithAuth(header) # "nil"
        THEN Unserved(401, "unauthorized")
        ELSE IF NewInvoiceErr(c.discount, issueDay, dueDay, c.items) # "ok"
        THEN Unserved(500, "Failed to create updated invoice")
        ELSE /\ nextInv <= MaxInvoices
             /\ UpdateInvoiceBeforeDueDateCall(userID, StoredID(invoiceID), c, issueDay,
                                               dueDay, "draft", fault)
             /\ reply' = IF err = "ok"
                         THEN Reply("update", arg, 200, "", "called", userID, NoToken)
                         ELSE Reply("update", arg, 500, "Failed to update invoice", "called",
                                    userID, NoToken)
             /\ routines' = Dispatch(err, userID, UpdateInvoiceActivity, invoiceID)
             /\ UNCHANGED alive

\* the request body carries a status, so BodyParser and FieldValidator pass
SendIssuedInvoiceToCustomer(header, userID, invoiceID, byStatus) ==
  LET arg == [header |-> header, userID |-> userID, invoiceID |-> invoiceID]
      Unserved(status, err) ==
        /\ reply' = Reply("send", arg, status, err, "none", userID, NoToken)
        /\ UNCHANGED <<userCol, invCol, nextInv, last, issuedByOp>>
        /\ UNCHANGED <<now, nextUser, inv, lastDom, watch, pend, overlapped,
                       activityCol, routines>>
  IN /\ HandlerReady
     /\ IF contextWithAuth(header) # "nil"
        THEN Unserved(401, "unauthorized") /\ UNCHANGED alive
        ELSE IF ~ObjectIDFromHex(invoiceID)
        THEN Unserved(0, "panic") /\ alive' = FALSE
        ELSE /\ UpdateInvoiceStatusToIssuedCall(userID, StoredID(invoiceID), byStatus)
             /\ reply' = Reply("send", arg, 200, "", "called", userID, NoToken)
             /\ routines' = Dispatch("ok", userID, IssueInvoiceActivity, invoiceID)
             /\ UNCHANGED alive

\* an invoice identifier that is not 24 hex digits is answered with 400
DeleteInvoiceHandler(header, userID, invoiceID) ==
  LET arg == [header |-> header, userID |-> userID, invoiceID |-> invoiceID]
      Unserved(status, err) ==
        /\ reply' = Reply("delete", arg, status, err, "none", userID, NoToken)
        /\ UNCHANGED <<userCol, invCol, nextInv, last, issuedByOp>>
        /\ UNCHANGED <<now, nextUser, inv, lastDom, watch, pend, overlapped,
                       activityCol, routines, alive>>
  IN /\ HandlerReady
     /\ IF contextWithAuth(header) # "nil"
        THEN Unserved(401, "unauthorized")
        ELSE IF ~ObjectIDFromHex(invoiceID)
        THEN Unserved(400, "Invalid invoiceID")
        ELSE /\ DeleteInvoiceCall(userID, StoredID(invoiceID))
             /\ reply' = Reply("delete", arg, 200, "", "called", userID, NoToken)
             /\ routines' = Dispatch("ok", userID, DeleteInvoiceActivity, invoiceID)
             /\ UNCHANGED alive

NextHttp ==
  \/ Tick
  \/ \E email \in Emails : AddUser(email)
  \/ \E header \in Headers, userID \in UserIDs, c \in CreateContents, issueDay \in Days,
        dueDay \in DueDays, fault \in AddFaults :
        CreateInvoiceHandler(header, userID, c, issueDay, dueDay, fault)
  \/ \E header \in Headers, userID \in UserIDs, invoiceID \in PathIDs, byStatus \in BOOLEAN :
        SendIssuedInvoiceToCustomer(header, userID, invoiceID, byStatus)

SpecHttp == Init /\ [][NextHttp]_vars

\* the four invoice handlers with the goroutines they start
ActivityHeaders == {"invalid_token", "valid"}
NextActivity ==
  \/ \E email \in Emails : AddUser(email)
  \/ \E header \in ActivityHeaders, userID \in UserIDs, c \in CreateContents,
        dueDay \in DueDays, fault \in AddFaults :
        CreateInvoiceHandler(header, userID, c, dueDay, dueDay, fault)
  \/ \E header \in ActivityHeaders, userID \in UserIDs, invoiceID \in PathIDs,
        c \in UpdateContents, dueDay \in DueDays, fault \in UpdateFaults :
        UpdateUnIssuedInvoiceHandler(header, userID, invoiceID, c, dueDay, dueDay, fault)
  \/ \E header \in ActivityHeaders, userID \in UserIDs, invoiceID \in PathIDs,
        byStatus \in BOOLEAN :
        SendIssuedInvoiceToCustomer(header, userID, invoiceID, byStatus)
  \/ \E header \in ActivityHeaders, userID \in UserIDs, invoiceID \in PathIDs :
        DeleteInvoiceHandler(header, userID, invoiceID)
  \/ \E i \in 1..MaxActivities, fault \in SaveFaults : ActivitySave(i, fault)

SpecActivity == InitWatching({}) /\ [][NextActivity]_vars

\* ---------------------------------------- GetInvoiceHandler, app.go
ViewInvoiceActivity == "view_invoice_activity"

\* a request as contextWithAuth sees it: the header and, for a token
\* ParseToken accepts, the subject of the token, which goes to c.Locals("id");
\* no other header yields a subject
NoSubject == 0
AuthRequests ==
  [header : {"valid"}, sub : UserIDs \cup {MaxUsers + 1}]
    \cup [header : Headers \ {"valid"}, sub : {NoSubject}]

\* FindUserInvoiceByID wraps every error, so the comparison with
\* mongo.ErrNoDocuments fails and a missing invoice is answered with 500
GetInvoiceHandler(req, userID, invoiceID) ==
  LET arg == [header |-> req.header, sub |-> req.sub, userID |-> userID,
              invoiceID |-> invoiceID]
      found == FindUserInvoiceByID(userID, StoredID(invoiceID))
  IN /\ HandlerReady
     /\ IF contextWithAuth(req.header) # "nil"
        THEN /\ reply' = Reply("get", arg, 401, "unauthorized", "none", userID, NoToken)
             /\ UNCHANGED routines
        ELSE IF found.err # "ok"
        THEN /\ reply' = Reply("get", arg, 500, "Failed to retrieve invoice", "called",
                               userID, NoToken)
             /\ UNCHANGED routines
        ELSE /\ reply' = Reply("get", arg, 200, "", "called", userID, NoToken)
             /\ routines' = Dispatch("ok", userID, ViewInvoiceActivity, invoiceID)
     /\ UNCHANGED <<userCol, invCol, now, nextUser, nextInv, last, issuedByOp, inv, lastDom,
                    watch, pend, overlapped, activityCol, alive>>

NextAuth ==
  \/ \E email \in Emails : AddUser(email)
  \/ \E header \in Headers, userID \in UserIDs, c \in CreateContents, dueDay \in DueDays :
        CreateInvoiceHandler(header, userID, c, dueDay, dueDay, "none")
  \/ \E req \in AuthRequests, userID \in UserIDs, invoiceID \in PathIDs :
        GetInvoiceHandler(req, userID, invoiceID)
  \/ \E i \in 1..MaxActivities, fault \in SaveFaults : ActivitySave(i, fault)

SpecAuth == InitWatching({}) /\ [][NextAuth]_vars

\* --------------------------- AddUser in concurrent requests, repository/user.go
\* Each database call is one step: FindOne, then InsertOne when FindOne saw no
\* document.  pend[p] is the address request p is about to insert; overlapped
\* collects the addresses for which a call began while another call for the
\* same address was between its two steps.
RaceEmails == {"a@b.com", "c@d.org", "e@f.net"}

AddUserFind(p, email) ==
  /\ pend[p] = ""
  /\ UserByEmail(email) = 0 =>
       nextUser + Cardinality({q \in Procs : pend[q] # ""}) <= MaxAccounts
  /\ overlapped' = IF \E q \in Procs \ {p} : pend[q] = email
                   THEN overlapped \cup {email} ELSE overlapped
  /\ IF UserByEmail(email) = 0
     THEN /\ pend' = [pend EXCEPT ![p] = email]
          /\ UNCHANGED last
     ELSE /\ UNCHANGED pend
          /\ last' = Called("adduser", userCol[UserByEmail(email)]._id, 0, NoInv,
                             "none", "existing")
  /\ UNCHANGED <<userCol, invCol, now, nextUser, nextInv, issuedByOp, inv, lastDom, watch,
                 reply, activityCol, routines, alive>>

AddUserInsert(p) ==
  /\ pend[p] # ""
  /\ userCol' = Append(userCol,
                       InsertedUser(NewUser(nextUser, "Ada", "Lovelace", pend[p],
                                            GenerateFromPassword("secret12"), "555")))
  /\ nextUser' = nextUser + 1
  /\ pend' = [pend EXCEPT ![p] = ""]
  /\ last' = Called("adduser", nextUser, 0, NoInv, "none", "inserted")
  /\ UNCHANGED <<invCol, now, nextInv, issuedByOp, inv, lastDom, watch, reply, overlapped, activityCol, routines, alive>>

NextAddUser ==
  \/ \E p \in Procs, email \in RaceEmails : AddUserFind(p, email)
  \/ \E p \in Procs : AddUserInsert(p)

SpecAddUser == InitWatching({"adduser"}) /\ [][NextAddUser]_vars

\* ------------------------------------------- accounts, app/app.go handlers
\* the struct tag the validator reads, and the tag the account request models
\* carry their rules under
ValidatorTagName == "validate"
AccountModelTag == "Usage"

\* the rules written on SignUpRequestModel
SignUpRules(data) ==
  IF data.first_name = "" THEN "first_name required"
  ELSE IF data.last_name = "" THEN "last_name required"
  ELSE IF data.email = "" \/ ~validateEmail(data.email) THEN "email"
  ELSE IF Len(data.password) < 8 THEN "password min"
  ELSE IF Len(data.password) > 20 THEN "password max"
  ELSE IF data.phone_number = "" THEN "phone_number required"
  ELSE "ok"

\* validate.Struct applies the rules found under the tag it reads
FieldValidator(tag, ruleErr) == IF tag = ValidatorTagName THEN ruleErr ELSE "ok"

\* sign-up requests: a valid one for each address, and for one address the
\* requests that differ from the valid one in a single field
SignUpEmails == {"a@b.com", "A@B.com", "c@d.org"}
ValidSignUp(email) ==
  [first_name |-> "Ada", last_name |-> "Lovelace", email |-> email,
   password |-> "secret12", phone_number |-> "555"]
SignUpRequests ==
  {ValidSignUp(email) : email \in SignUpEmails}
  \cup {[ValidSignUp("c@d.org") EXCEPT !.email = "nobody"],
        [ValidSignUp("c@d.org") EXCEPT !.first_name = ""],
        [ValidSignUp("c@d.org") EXCEPT !.last_name = " "],
        [ValidSignUp("c@d.org") EXCEPT !.last_name = ""],
        [ValidSignUp("c@d.org") EXCEPT !.password = ""],
        [ValidSignUp("c@d.org") EXCEPT !.password = "short"],
        [ValidSignUp("c@d.org") EXCEPT !.password = "a-password-of-more-than-20"]}

SignUpHandler(data) ==
  /\ LET hashedPassword == CreateHash(data.password)
         user == NewUser(nextUser, data.first_name, data.last_name, data.email,
                         hashedPassword.hash, data.phone_number)
     IN IF FieldValidator(AccountModelTag, SignUpRules(data)) # "ok"
        THEN /\ reply' = Reply("signup", data, 400, "invalid input", "none", 0, NoToken)
             /\ UNCHANGED <<userCol, nextUser>>
        ELSE IF hashedPassword.err # "ok"
        THEN /\ reply' = Reply("signup", data, 400, hashedPassword.err, "none", 0, NoToken)
             /\ UNCHANGED <<userCol, nextUser>>
        ELSE /\ userCol' = AddUserCol(user, user.email)
             /\ nextUser' = IF UserByEmail(user.email) = 0 THEN nextUser + 1 ELSE nextUser
             /\ reply' = Reply("signup", data, 201, "",
                               IF UserByEmail(user.email) = 0 THEN "inserted" ELSE "existing",
                               AddUserReturn(user, user.email)._id, NoToken)
  /\ UNCHANGED <<invCol, now, nextInv, last, issuedByOp, inv, lastDom, watch, pend, overlapped, activityCol, routines, alive>>

\* the rules written on LoginRequestModel
LoginRules(data) ==
  IF data.email = "" \/ ~validateEmail(data.email) THEN "email"
  ELSE IF Len(data.password) < 8 THEN "password min"
  ELSE IF Len(data.password) > 20 THEN "password max"
  ELSE "ok"

LoginRequests == [email : {"a@b.com", "c@d.org", ""}, password : {"short", "secret12"}]

LoginHandler(data) ==
  /\ LET k == UserByEmail(data.email)
         user == userCol[k]
         generated == GenerateJWTToken(user._id, user.email)
     IN IF FieldValidator(AccountModelTag, LoginRules(data)) # "ok"
        THEN /\ reply' = Reply("login", data, 400, "Invalid input", "none", 0, NoToken)
             /\ UNCHANGED userCol
        ELSE IF k = 0
        THEN /\ reply' = Reply("login", data, 400, "user not found", "none", 0, NoToken)
             /\ UNCHANGED userCol
        ELSE IF ~VerifyPassword(data.password, user.password)
        THEN /\ reply' = Reply("login", data, 401, "invalid credentials", "none", 0, NoToken)
             /\ UNCHANGED userCol
        ELSE IF generated.err # "ok"
        THEN /\ reply' = Reply("login", data, 500, generated.err, "none", 0, NoToken)
             /\ UNCHANGED userCol
        ELSE IF SaveTokenErr(user._id, generated.token) # "ok"
        THEN /\ reply' = Reply("login", data, 500, "cannot update token", "none", 0, NoToken)
             /\ UNCHANGED userCol
        ELSE /\ userCol' = SaveTokenCol(user._id, generated.token)
             /\ reply' = Reply("login", data, 200, "", "ok", user._id, generated.token)
  /\ UNCHANGED <<invCol, now, nextUser, nextInv, last, issuedByOp, inv, lastDom, watch,
                 pend, overlapped, activityCol, routines, alive>>

\* identifiers, known or not, and passwords handed to the repository directly
AccountIDs == 1..MaxAccounts
ResetEmails == {"a@b.com", "nobody"}

NextAccount ==
  \/ Tick
  \/ \E data \in SignUpRequests : SignUpHandler(data)
  \/ \E data \in LoginRequests : LoginHandler(data)
  \/ \E id \in AccountIDs : SaveToken(id, GenerateJWTToken(id, "a@b.com").token)
  \/ \E email \in ResetEmails : UpdatePassword(email, GenerateFromPassword("changed99"))

SpecAccount == Init /\ [][NextAccount]_vars

\* ------------------------------------- the invoice object, domain/invoice.go
\* items and discounts a caller may hand to the invoice object, valid or not
DomainItems ==
  {Item("design", 3, 10), Item("hosting", 1, 50), Item("", 1, 10),
   Item("design", 0, 10), Item("design", 1, -1)}
DomainDiscounts == {-1, 0, 10, 101}
\* the item lists handed to NewInvoice: empty, valid, or holding an invalid item
NewInvoiceItems == {Item("design", 3, 10), Item("hosting", 1, 50), Item("design", 0, 10)}
ItemLists == UNION {[1..n -> NewInvoiceItems] : n \in 0..MaxItems}

CallNewInvoice(discount, issueDay, dueDay, items, status) ==
  /\ nextInv <= MaxInvoices
  /\ IF NewInvoiceErr(discount, issueDay, dueDay, items) = "ok"
     THEN /\ inv' = NewInvoice(nextInv, discount, issueDay, dueDay, items, status)
          /\ nextInv' = nextInv + 1
          /\ lastDom' = [op |-> "new", res |-> "ok"]
     ELSE /\ UNCHANGED <<inv, nextInv>>
          /\ lastDom' = [op |-> "new", res |-> NewInvoiceErr(discount, issueDay, dueDay, items)]
  /\ UNCHANGED <<userCol, invCol, now, nextUser, last, issuedByOp, watch, reply, pend, overlapped, activityCol, routines, alive>>

InvoiceAddItem(i, item) ==
  [i EXCEPT !.items = Append(i.items, item),
            !.total_amount_due = calculateTotalAmount(Append(i.items, item), i.discount)]

AddItem(item) ==
  /\ inv # NoInv
  /\ Len(inv.items) <= MaxItems
  /\ IF validateItem(item) # "ok"
     THEN /\ UNCHANGED inv
          /\ lastDom' = [op |-> "additem", res |-> validateItem(item)]
     ELSE /\ inv' = InvoiceAddItem(inv, item)
          /\ lastDom' = [op |-> "additem", res |-> "ok"]
  /\ UNCHANGED <<userCol, invCol, now, nextUser, nextInv, last, issuedByOp, watch, reply, pend, overlapped, activityCol, routines, alive>>

InvoiceUpdateDiscount(i, discount) ==
  [i EXCEPT !.discount = discount,
            !.total_amount_due = calculateTotalAmount(i.items, discount)]

UpdateDiscount(discount) ==
  /\ inv # NoInv
  /\ IF discount < 0 \/ discount > 100
     THEN /\ UNCHANGED inv
          /\ lastDom' = [op |-> "updatediscount", res |-> "discount must be between 0 and 100"]
     ELSE /\ inv' = InvoiceUpdateDiscount(inv, discount)
          /\ lastDom' = [op |-> "updatediscount", res |-> "ok"]
  /\ UNCHANGED <<userCol, invCol, now, nextUser, nextInv, last, issuedByOp, watch, reply, pend, overlapped, activityCol, routines, alive>>

NextInvoice ==
  \/ \E discount \in DomainDiscounts, issueDay \in Days, dueDay \in Days,
        items \in ItemLists :
        CallNewInvoice(discount, issueDay, dueDay, items, "draft")
  \/ \E item \in DomainItems : AddItem(item)
  \/ \E discount \in DomainDiscounts : UpdateDiscount(discount)

SpecInvoice == Init /\ [][NextInvoice]_vars

\* --------------------------- payment information, domain/invoice.go
PaymentInformation(name, number, routing, bank) ==
  [account_name |-> name, account_number |-> number, routing_number |-> routing,
   bank_name |-> bank]

validatePaymentInfo(paymentInfo) ==
  IF paymentInfo.account_name = "" THEN "account name cannot be empty"
  ELSE IF paymentInfo.account_number = "" /\ Len(paymentInfo.account_number) < 11
       THEN "account number cannot be empty"
  ELSE IF paymentInfo.routing_number = "" /\ Len(paymentInfo.routing_number) < 7
       THEN "routing number cannot be empty"
  ELSE IF paymentInfo.bank_name = "" THEN "bank name cannot be empty"
  ELSE "ok"

\* payment information a caller may hand over: each field empty, too short
\* or long enough
PaymentInfos ==
  {PaymentInformation(name, number, routing, bank) :
     name \in {"", "Ada Lovelace"}, number \in {"", "123", "12345678901"},
     routing \in {"", "123", "1234567"}, bank \in {"", "Bank"}}

\* NewInvoice with its payment information: validatePaymentInfo is the last
\* check before the invoice is built
CallNewInvoicePaid(discount, issueDay, dueDay, items, paymentInfo) ==
  /\ nextInv <= MaxInvoices
  /\ LET err == IF NewInvoiceErr(discount, issueDay, dueDay, items) # "ok"
                THEN NewInvoiceErr(discount, issueDay, dueDay, items)
                ELSE validatePaymentInfo(paymentInfo)
     IN IF err = "ok"
        THEN /\ inv' = NewInvoice(nextInv, discount, issueDay, dueDay, items, "draft")
                         @@ [payment_info |-> paymentInfo]
             /\ nextInv' = nextInv + 1
             /\ lastDom' = [op |-> "new", res |-> "ok"]
        ELSE /\ UNCHANGED <<inv, nextInv>>
             /\ lastDom' = [op |-> "new", res |-> err]
  /\ UNCHANGED <<userCol, invCol, now, nextUser, last, issuedByOp, watch, reply, pend,
                 overlapped, activityCol, routines, alive>>

UpdatePaymentInfo(paymentInfo) ==
  /\ inv # NoInv
  /\ IF validatePaymentInfo(paymentInfo) # "ok"
     THEN /\ UNCHANGED inv
          /\ lastDom' = [op |-> "updatepaymentinfo", res |-> validatePaymentInfo(paymentInfo)]
     ELSE /\ inv' = [inv EXCEPT !.payment_info = paymentInfo]
          /\ lastDom' = [op |-> "updatepaymentinfo", res |-> "ok"]
  /\ UNCHANGED <<userCol, invCol, now, nextUser, nextInv, last, issuedByOp, watch, reply,
                 pend, overlapped, activityCol, routines, alive>>

NextPayment ==
  \/ \E discount \in DomainDiscounts, issueDay \in Days, dueDay \in Days,
        c \in CreateContents, paymentInfo \in PaymentInfos :
        CallNewInvoicePaid(discount, issueDay, dueDay, c.items, paymentInfo)
  \/ \E paymentInfo \in PaymentInfos : UpdatePaymentInfo(paymentInfo)

SpecPayment == Init /\ [][NextPayment]_vars

\* ------------------------------------------------------------- properties
\* the calendar day of a stored issue date, string or datetime
IssueDay(e) == IF e.issue_date.typ = "string" THEN e.issue_date.t
               ELSE e.issue_date.t.day

\* sum of quantity * unit price, taken from the front of the list
RECURSIVE LineSum(_)
LineSum(items) ==
  IF items = <<>> THEN 0
  ELSE Head(items).quantity * Head(items).unit_price + LineSum(Tail(items))

\* an update call has just been made; a rejected call that repeats the call
\* before it leaves every variable as it was
UpdateStep == last'.op = "update" /\ last' # last

\* C1: once AddNewInvoice has returned, the new invoice is in the owner's
\* embedded list and in the standalone collection, or in neither.
C1_AddBothOrNeither ==
  (last.op = "add" /\ last.res \in {"ok", "error"}) =>
    ((Embedded(last.id) # {}) <=> (Standalone(last.id) # {}))

\* C2: the invoices embedded in user documents and the invoices of the
\* standalone collection are the same set, with equal fields.
C2_CopiesConsistent == AllEmbedded = AllStandalone

\* C3: an update of a stored invoice whose issue date is today or earlier, or
\* whose due date has passed, fails with the immutable-invoice error and
\* changes neither copy.
C3_ImmutableRejected ==
  [][(/\ UpdateStep
      /\ last'.pre # NoInv
      /\ (IssueDay(last'.pre) <= Today \/ After(now, ParseDate(last'.pre.due_date))))
     => (last'.res = "immutable" /\ userCol' = userCol /\ invCol' = invCol)]_vars

\* C4: an update of an invoice that exists in both collections, whose issue
\* date is strictly after today and whose due date has not passed, succeeds
\* when no write fails; afterwards the embedded and the standalone copy both
\* hold the new invoice, whose total is computed from its items and discount.
C4_UpdateSucceeds ==
  [][(/\ UpdateStep
      /\ last'.fault = "none"
      /\ last'.pre # NoInv /\ last'.preSt
      /\ IssueDay(last'.pre) > Today
      /\ Today <= last'.pre.due_date)
     => (/\ last'.res = "ok"
         /\ EmbeddedIn(userCol', last'.arg.invoice_id) = {last'.arg}
         /\ StandaloneIn(invCol', last'.arg.invoice_id) = {last'.arg}
         /\ EmbeddedIn(userCol', last'.id) = {} /\ StandaloneIn(invCol', last'.id) = {}
         /\ last'.arg.total_amount_due =
              LineSum(last'.arg.items) * (100 - last'.arg.discount))]_vars

C4_Witness ==
  /\ last.op = "update" /\ last.res = "ok"
  /\ last.pre # NoInv /\ IssueDay(last.pre) > Today
  /\ last.pre.items # last.arg.items
  /\ Embedded(last.arg.invoice_id) = {last.arg}
  /\ Standalone(last.arg.invoice_id) = {last.arg}

\* C5: once UpdateInvoiceStatusToIssued has set an invoice to issued, every
\* later update of that invoice is rejected and changes neither collection.
C5_IssuedStaysImmutable ==
  [][(UpdateStep /\ last'.id \in issuedByOp)
     => (last'.res # "ok" /\ userCol' = userCol /\ invCol' = invCol)]_vars

C5_Witness ==
  /\ last.op = "update" /\ last.id \in issuedByOp
  /\ last.pre # NoInv /\ last.pre.status = "issued"
  /\ last.res # "ok"

\* C6: after UpdateInvoiceStatusToIssued on an existing invoice whose status
\* is draft, pending or overdue, both copies have status issued and the same
\* newly stamped issue date.
C6_IssuedInBothCopies ==
  (last.op = "issue" /\ last.pre # NoInv /\ last.pre.status \in ReadyToIssueStatus) =>
    /\ Embedded(last.id) # {} /\ Standalone(last.id) # {}
    /\ \A e \in Embedded(last.id), c \in Standalone(last.id) :
         /\ e.status = "issued" /\ c.status = "issued"
         /\ e.issue_date.typ = "datetime"
         /\ c.issue_date = e.issue_date

\* C7: when the target invoice's status is not draft, pending or overdue,
\* UpdateInvoiceStatusToIssued returns success and changes no invoice.
C7_IssueNoOp ==
  [][(/\ last'.op = "issue"
      /\ last'.pre # NoInv
      /\ last'.pre.status \notin ReadyToIssueStatus)
     => (last'.res = "ok" /\ userCol' = userCol /\ invCol' = invCol)]_vars

\* C8: after a successful DeleteInvoice of an existing invoice of the owner,
\* the invoice is in neither collection and FindByID fails with not-found.
C8_DeletedFromBoth ==
  (last.op = "delete" /\ last.res = "ok" /\ last.pre # NoInv) =>
    /\ Embedded(last.id) = {}
    /\ Standalone(last.id) = {}
    /\ FindUserInvoiceByID(last.user, last.id).err = "not_found"

\* C9: DeleteInvoice with an invoice identifier that is in neither collection
\* returns success and changes neither the user collection nor the standalone
\* invoice collection.
C9_DeleteMissingIsNoOp ==
  [][(/\ last'.op = "delete"
      /\ Embedded(last'.id) = {}
      /\ Standalone(last'.id) = {})
     => (last'.res = "ok" /\ userCol' = userCol /\ invCol' = invCol)]_vars

C9_Witness ==
  /\ last.op = "delete" /\ last.res = "ok"
  /\ last.pre = NoInv /\ ~last.preSt
  /\ Embedded(last.id) = {} /\ Standalone(last.id) = {}
  /\ \E k \in 1..Len(userCol) : userCol[k]._id = last.user /\ userCol[k].invoices # <<>>

\* C10: after NewInvoice and after every successful AddItem or UpdateDiscount
\* the total amount due is (sum of quantity * unit price) * (1 - discount/100);
\* the field holds hundredths, so items (3 @ 10, 1 @ 50) at discount 10 give 7200.
C10_TotalAmountDue ==
  inv # NoInv => inv.total_amount_due = LineSum(inv.items) * (100 - inv.discount)

C10_Witness ==
  /\ lastDom.op \in {"additem", "updatediscount"} /\ lastDom.res = "ok"
  /\ inv.items = <<Item("design", 3, 10), Item("hosting", 1, 50)>>
  /\ inv.discount = 10
  /\ inv.total_amount_due = 7200

\* C11: in every reachable state every invoice stored in either collection has
\* its issue date on or before its due date (compared by calendar day),
\* whatever create, update and issue operations were applied to it.
C11_IssueNotAfterDue ==
  \A e \in AllEmbedded \cup AllStandalone : IssueDay(e) <= e.due_date
\* C12: the invoice object built by NewInvoice and changed by AddItem and
\* UpdateDiscount always has at least one item, every item with a non-empty
\* description, a quantity of at least 1 and a unit price of at least 0, and a
\* discount from 0 to 100; an AddItem or UpdateDiscount call that returns an
\* error leaves items, discount and total as they were.
C12_ItemsAndDiscountValid ==
  /\ [](inv # NoInv =>
          /\ Len(inv.items) >= 1
          /\ \A i \in 1..Len(inv.items) :
                /\ inv.items[i].description # ""
                /\ inv.items[i].quantity >= 1
                /\ inv.items[i].unit_price >= 0
          /\ inv.discount >= 0 /\ inv.discount <= 100)
  /\ [][(lastDom'.op \in {"additem", "updatediscount"} /\ lastDom'.res # "ok") =>
          (/\ inv'.items = inv.items
           /\ inv'.discount = inv.discount
           /\ inv'.total_amount_due = inv.total_amount_due)]_vars

\* a rejected AddItem after an accepted one, on an invoice of several items
C12_Witness ==
  /\ inv # NoInv
  /\ Len(inv.items) > 1
  /\ lastDom.op = "additem"
  /\ lastDom.res = "item quantity must be greater than 0"
\* C13: a sign-up with an email that already has an account adds no record,
\* AddUser returns the existing identity, and the handler answers with the
\* "already exists" error (400) instead of 201.
C13_ExistingEmailRejected ==
  (reply.op = "signup" /\ reply.res = "existing" /\ SignUpRules(reply.arg) = "ok") =>
    (reply.status = 400 /\ reply.err = "cannot add existing user")

\* C16: a sign-up with invalid input (malformed email, empty first or last
\* name, password shorter than 8 or longer than 20) is answered 400 and
\* inserts no user.
C16_InvalidSignUpRejected ==
  (reply.op = "signup" /\ SignUpRules(reply.arg) # "ok") =>
    (reply.status = 400 /\ reply.res # "inserted")
\* C17: login answers 200 with a token only when a user with the submitted
\* email exists and the submitted password verifies against the stored hash;
\* the token stored for that user is then the token returned; a login that is
\* answered otherwise leaves every user's stored token as it was.
C17_LoginTokenOnlyWhenVerified ==
  /\ []((reply.op = "login" /\ reply.status = 200) =>
          \E k \in 1..Len(userCol) :
            /\ userCol[k].email = reply.arg.email
            /\ userCol[k].password = GenerateFromPassword(reply.arg.password)
            /\ userCol[k]._id = reply.user
            /\ reply.token # NoToken
            /\ userCol[k].token = reply.token)
  /\ [][(reply'.op = "login" /\ reply'.status # 200) =>
          (/\ Len(userCol') = Len(userCol)
           /\ \A k \in 1..Len(userCol) : userCol'[k].token = userCol[k].token)]_vars

\* a successful login, on a later day, of a user who already held a token,
\* next to another account
C17_Witness ==
  /\ reply.op = "login"
  /\ reply.status = 200
  /\ reply.token.iat > 0
  /\ Len(userCol) > 1
\* C20: SaveToken for an identifier no user has fails with not-found and
\* changes no record, and so does UpdatePassword for an email no user has;
\* for an existing user SaveToken overwrites the token and UpdatePassword the
\* password, and nothing else.
C20_OverwriteOrNotFound ==
  [][/\ (reply'.op = "savetoken" /\ UserByID(reply'.arg.id) = 0) =>
          (userCol' = userCol /\ reply'.err # "ok")
     /\ (reply'.op = "savetoken" /\ UserByID(reply'.arg.id) # 0) =>
          (/\ userCol' = [userCol EXCEPT ![UserByID(reply'.arg.id)].token = reply'.token]
           /\ reply'.err = "ok")
     /\ (reply'.op = "updatepassword" /\ UserByEmail(reply'.arg.email) = 0) =>
          (userCol' = userCol /\ reply'.err # "ok")
     /\ (reply'.op = "updatepassword" /\ UserByEmail(reply'.arg.email) # 0) =>
          (/\ \E password \in {GenerateFromPassword("changed99")} :
                userCol' = [userCol EXCEPT ![UserByEmail(reply'.arg.email)].password = password]
           /\ reply'.err = "ok")]_vars
\* the number of user records with an email
RecordsWith(email) == Cardinality({k \in 1..Len(userCol) : userCol[k].email = email})

\* C14: AddUser calls for an email that never overlap leave at most one user
\* record with that email; two calls that overlap can both see no record and
\* both insert, leaving two records with the email.
C14_UniqueUnlessOverlapped ==
  \A email \in RaceEmails \ overlapped : RecordsWith(email) <= 1

\* one address inserted twice by overlapping calls, while a repeated call for
\* another address, never overlapped, has returned the one existing user
C14_Witness ==
  /\ \E email \in overlapped : RecordsWith(email) = 2
  /\ \E email \in RaceEmails \ overlapped :
       /\ RecordsWith(email) = 1
       /\ last.op = "adduser"
       /\ last.res = "existing"
       /\ userCol[UserByEmail(email)]._id = last.user
\* C19: FindUserInvoiceByID returns the stored invoice exactly when the user
\* document exists and its embedded list holds an invoice with the identifier,
\* in particular right after AddNewInvoice succeeded for that user, and a
\* not-found error otherwise, also when the invoice belongs to another user.
C19_FindReturnsStored ==
  /\ \A userID \in UserIDs \cup {MaxUsers + 1}, invoiceID \in InvoiceIDs :
       IF \E k \in 1..Len(userCol) :
            userCol[k]._id = userID /\ HasInvoiceID(userCol[k], invoiceID)
       THEN /\ FindUserInvoiceByID(userID, invoiceID).err = "ok"
            /\ FindUserInvoiceByID(userID, invoiceID).invoice \in Embedded(invoiceID)
       ELSE FindUserInvoiceByID(userID, invoiceID).err = "not_found"
  /\ (last.op = "add" /\ last.res = "ok" /\ UserByID(last.user) # 0) =>
       (/\ FindUserInvoiceByID(last.user, last.id).err = "ok"
        /\ FindUserInvoiceByID(last.user, last.id).invoice = last.arg)
\* C15: an invoice endpoint runs its repository operation only for a request
\* whose Authorization header carries a valid, unexpired bearer token; with
\* the header missing, malformed or carrying an invalid token the answer is
\* 401 (or 204) and the repository is not called; with a valid token the
\* request is served.
C15_AuthRequired ==
  reply.op \in {"create", "send"} =>
    IF reply.arg.header = "valid"
    THEN reply.status \notin {401, 204}
    ELSE reply.status \in {401, 204} /\ reply.res = "none"

\* C18: a send request that carries the identifier the create endpoint
\* returned for a stored invoice, and is not turned away as unauthorized,
\* is answered 200 and leaves the invoice issued in both copies.
C18_CreatedCanBeSent ==
  (/\ reply.op = "send"
   /\ reply.status # 401
   /\ reply.arg.invoiceID.prefix = "INV-"
   /\ \E k \in 1..Len(userCol) :
        /\ userCol[k]._id = reply.arg.userID
        /\ HasInvoiceID(userCol[k], reply.arg.invoiceID.hex)) =>
    (/\ reply.status = 200
     /\ \A e \in Embedded(reply.arg.invoiceID.hex) \cup Standalone(reply.arg.invoiceID.hex) :
          e.status = "issued")
\* C21: the payment information of an invoice built by NewInvoice or changed
\* by UpdatePaymentInfo has a non-empty account name, a non-empty bank name,
\* an account number of at least 11 characters and a routing number of at
\* least 7; anything else is rejected.
C21_PaymentInfoValid ==
  inv # NoInv =>
    /\ inv.payment_info.account_name # ""
    /\ inv.payment_info.bank_name # ""
    /\ Len(inv.payment_info.account_number) >= 11
    /\ Len(inv.payment_info.routing_number) >= 7
\* C22: an UpdateInvoiceBeforeDueDate call whose embedded write or standalone
\* write matches no document fails with not-found and changes no copy of any
\* invoice; the update is visible only when both writes matched a document.
C22_UpdateAllOrNothing ==
  [][(UpdateStep /\ last'.res \in {"not_found", "no_match_invoice"}) =>
       (userCol' = userCol /\ invCol' = invCol)]_vars
\* C23: DeleteInvoice(ownerID, invoiceID) keeps the owner's user record
\* (identity, email, password hash, token) and every other invoice of the
\* owner, embedded and standalone; only the targeted invoice is removed.
C23_DeleteKeepsOwner ==
  [][(last'.op = "delete" /\ last' # last) =>
       /\ \A k \in 1..Len(userCol) :
            \E n \in 1..Len(userCol') :
              /\ userCol'[n]._id = userCol[k]._id
              /\ userCol'[n].email = userCol[k].email
              /\ userCol'[n].password = userCol[k].password
              /\ userCol'[n].token = userCol[k].token
              /\ \A i \in 1..Len(userCol[k].invoices) :
                   userCol[k].invoices[i].invoice_id # last'.id =>
                     \E m \in 1..Len(userCol'[n].invoices) :
                       userCol'[n].invoices[m] = userCol[k].invoices[i]
       /\ \A invoiceID \in InvoiceIDs \ {last'.id} :
            StandaloneIn(invCol', invoiceID) = StandaloneIn(invCol, invoiceID)]_vars

\* C24: a call of UpdateInvoiceBeforeDueDate, UpdateInvoiceStatusToIssued or
\* DeleteInvoice with the owner identifier U leaves the user document of every
\* other owner, with all its embedded invoices, as it was, and leaves as it
\* was every standalone copy of an invoice embedded in another owner's document
MutationStep == last'.op \in MutationOps /\ last' # last
C24_OtherOwnerUntouched ==
  [][MutationStep =>
       /\ \A k \in 1..Len(userCol) :
            userCol[k]._id # last'.user =>
              \E m \in 1..Len(userCol') : userCol'[m] = userCol[k]
       /\ \A id \in InvoiceIDs :
            (\E k \in 1..Len(userCol) :
                userCol[k]._id # last'.user /\ HasInvoiceID(userCol[k], id)) =>
              StandaloneIn(invCol', id) = StandaloneIn(invCol, id)]_vars
\* owner U names an invoice of another owner in a mutation, and both the
\* embedded and the standalone copy of that invoice are still there
C24_Witness ==
  /\ last.op \in MutationOps
  /\ \E k \in 1..Len(userCol) :
       /\ userCol[k]._id # last.user
       /\ HasInvoiceID(userCol[k], last.id)
  /\ Standalone(last.id) # {}
\* C25: when the update handler answers 200, the owner's document still holds
\* an invoice under the identifier of the request path, which is what
\* FindUserInvoiceByID looks for, and it holds as many invoices as before
UpdateServed == reply'.op = "update" /\ reply'.status = 200 /\ reply' # reply
C25_UpdateKeepsIdentifier ==
  [][UpdateServed =>
       \A k \in 1..Len(userCol) :
         userCol[k]._id = reply'.user =>
           /\ k \in 1..Len(userCol')
           /\ HasInvoiceID(userCol'[k], StoredID(reply'.arg.invoiceID))
           /\ Len(userCol'[k].invoices) = Len(userCol[k].invoices)]_vars
\* C26: no stored invoice, embedded or standalone, has the status paid,
\* cancelled or refunded, and a step that changes the status of an embedded
\* invoice changes it from draft, pending or overdue to issued
ClosedStatuses == {"paid", "cancelled", "refunded"}
C27_ZeroSummaryNoError ==
  [][(last'.op = "stat" /\ last' # last) =>
       /\ PaidInvoices(last'.user) = <<>> =>
            (last'.res = "nil" /\ last'.arg = ZeroSummary)
       /\ last'.res = "nil" =>
            (last'.arg.TotalOverdue = 0 /\ last'.arg.TotalPending = 0)]_vars
\* C28: a goroutine whose activity write fails leaves the response of the
\* request, the user collection and the invoice collections as they are, and
\* the process goes on serving requests
SaveFailed == Len(routines') < Len(routines) /\ activityCol' = activityCol
C28_SaveFailureOnlyLogged ==
  [][SaveFailed =>
       (reply' = reply /\ userCol' = userCol /\ invCol' = invCol /\ alive')]_vars
\* C29: a step starts a goroutine only as the last act of a create, update,
\* issue or delete handler whose repository call returned no error: it starts
\* exactly one, for the activity with the handler's action tag and the user
\* identifier of the path; a handler that answers with success starts one, a
\* handler that fails before or in the repository call starts none; and the
\* stored activity records are only ever appended to
ActionTag(op) ==
  CASE op = "create" -> CreateInvoiceActivity
    [] op = "update" -> UpdateInvoiceActivity
    [] op = "send" -> IssueInvoiceActivity
    [] op = "delete" -> DeleteInvoiceActivity
    [] OTHER -> "none"
HandlerOps == {"create", "update", "send", "delete"}
Succeeded(r) == r.op \in HandlerOps /\ r.res = "called" /\ r.status \in {200, 201}
C29_ActivityOncePerSuccess ==
  [][/\ Len(routines') > Len(routines) =>
          /\ Succeeded(reply')
          /\ Len(routines') = Len(routines) + 1
          /\ SubSeq(routines', 1, Len(routines)) = routines
          /\ routines'[Len(routines')].action = ActionTag(reply'.op)
          /\ routines'[Len(routines')].user_id = reply'.arg.userID
     /\ (reply' # reply /\ Succeeded(reply')) => Len(routines') = Len(routines) + 1
     /\ (reply' # reply /\ ~Succeeded(reply')) => routines' = routines
     /\ Len(activityCol') >= Len(activityCol)
     /\ SubSeq(activityCol', 1, Len(activityCol)) = activityCol]_vars
\* an update was answered with success, its activity is dispatched and not yet
\* written, and the activity of an earlier request is stored
C29_Witness ==
  /\ reply.op = "update" /\ reply.status = 200
  /\ \E i \in 1..Len(routines) :
       routines[i] = Activity(reply.arg.userID, UpdateInvoiceActivity, reply.arg.invoiceID)
  /\ Len(activityCol) > 0
====
